---- MODULE Spec2Model ----
(***************************************************************************)
(* cupyx.scipy.ndimage.measurements.label: connected-component labelling   *)
(* with a lock-free union-find over one thread per cell.                   *)
(*                                                                         *)
(* Arrays are functions over 0..n-1 (the flat, C-order index the kernels   *)
(* use).  A kernel launch is a phase: every thread of a phase finishes     *)
(* before the host launches the next one.  Inside a phase the threads      *)
(* interleave at the granularity of one access to shared memory.           *)
(***************************************************************************)
EXTENDS Integers, Sequences, FiniteSets, TLC

\* Bounds of the explored inputs.
MaxRank == 4
MaxDim == 3
MaxCells == 4
ApiRank == 1
ApiCells == 3
LiveRank == 2
LiveDim == 2
LiveCells == 4
GenRank == 4
GenConn == 5
CompileRank == 3
CompilePairs == 13
ReduceCells == 3
\* the finalize kernel alone: the length of the field, and so of the longest
\* root list searched
SearchCells == 7

\* Content of memory returned by cupy.empty before anything is stored in it.
Uninit == -7
\* Content of a caller's output array before the call.
Stale == 9

VARIABLES
    input,      \* the argument `input`: [isarray, char, shape, data]
    structure,  \* the argument `structure`: [given, shape, on], `on` the flat
                \* positions of its nonzero entries
    output,     \* the argument/local `output`: [kind, dtype, shape, data]
    pc,         \* where label() is
    err,        \* the exception label() raised, "none" if none
    ret,        \* what label() returned
    dirs,       \* _label: the retained offsets, in the order of `indxs`
    y,          \* the working buffer
    count,      \* _label: count[0] roots counted, count[1] roots appended
    maxlabel,
    labels,     \* _label: the root list
    sorted,     \* _label: cupy.sort(labels)
    th,         \* per cell, the thread of the running kernel: [pc, j, k, dr]
    oob,        \* some thread accessed `labels` outside its bounds
    again,      \* the connect kernel launched once more: "no", or the phase
                \* it was launched after
    call        \* another call into the module: [fn, args, result]

vars == <<input, structure, output, pc, err, ret, dirs, y, count, maxlabel,
          labels, sorted, th, oob, again, call>>

\* what a call of label() leaves alone
Around == <<again, call>>

----------------------------------------------------------------------------
\* Arrays and shapes

Range(f) == {f[a] : a \in DOMAIN f}

RECURSIVE Prod(_)
Prod(shape) == IF shape = <<>> THEN 1 ELSE Head(shape) * Prod(Tail(shape))

Cells(shape) == 0 .. (Prod(shape) - 1)

Abs(a) == IF a < 0 THEN -a ELSE a

RECURSIVE SumAbs(_)
SumAbs(v) == IF v = <<>> THEN 0 ELSE Abs(Head(v)) + SumAbs(Tail(v))

\* C's integer division, which truncates toward zero.
CDiv(a, b) == IF a >= 0 THEN a \div b ELSE -((-a) \div b)

Cube(rank) == [a \in 1 .. rank |-> 3]

RECURSIVE Pow3(_)
Pow3(n) == IF n = 0 THEN 1 ELSE 3 * Pow3(n - 1)

\* numpy.indices([3] * rank) - 1 at flat (C-order) position f: the offset of
\* that entry from the centre, the last axis varying fastest
RECURSIVE Vec(_, _)
Vec(rank, f) ==
    IF rank = 0 THEN <<>> ELSE Append(Vec(rank - 1, f \div 3), (f % 3) - 1)

\* faulty variant: a connectivity below 1 is used as it is
GenerateBinaryStructureUnclamped(rank, connectivity) ==
    IF rank < 1
    THEN [shape |-> <<>>, on |-> {0}]
    ELSE [shape |-> Cube(rank),
          on |-> {f \in Cells(Cube(rank)) : SumAbs(Vec(rank, f)) <= connectivity}]

\* _generate_binary_structure(rank, connectivity): the shape and the flat
\* positions of the True entries
GenerateBinaryStructure(rank, connectivity) ==
    LET conn == IF connectivity < 1 THEN 1 ELSE connectivity
    IN  IF rank < 1
        THEN [shape |-> <<>>, on |-> {0}]
        ELSE [shape |-> Cube(rank),
              on |-> {f \in Cells(Cube(rank)) : SumAbs(Vec(rank, f)) <= conn}]

----------------------------------------------------------------------------
\* _label, lines 92-100: the offsets handed to the connect kernel

RECURSIVE EncFrom(_, _, _)
EncFrom(v, a, acc) ==
    IF a > Len(v) THEN acc ELSE EncFrom(v, a + 1, acc * 3 + v[a])

\* faulty variant: the components are added up without the factor 3
EncSum(v) ==
    LET s[n \in 0 .. Len(v)] == IF n = 0 THEN 0 ELSE s[n - 1] + v[n]
    IN  s[Len(v)]

\* offset = vecs[0]; for dm in 1..ndim-1: offset = offset * 3 + vecs[dm]
Enc(v) == EncFrom(v, 2, v[1])

\* faulty variant: the threshold is off by one, the offset -1 along the last
\* axis is lost
RetainedBelowMinusOne(v) == Enc(v) < -1

\* faulty variant: the offsets with positive encoding are the ones kept
RetainedAboveZero(v) == Enc(v) > 0

\* indxs = where(offset < 0)
Retained(v) == Enc(v) < 0

\* faulty variant: no offset is handed to the connect kernel
DirsNone(st) == <<>>

\* numpy.where lists the active entries in C order; dirs keeps that order.
Dirs(st) ==
    LET rank == Len(st.shape)
        all == [n \in 1 .. Pow3(rank) |-> n - 1]
        kept == SelectSeq(all, LAMBDA f : f \in st.on /\ Retained(Vec(rank, f)))
    IN  [n \in 1 .. Len(kept) |-> Vec(rank, kept[n])]

----------------------------------------------------------------------------
\* faulty variant: a coordinate below 0 is not refused
RECURSIVE NeighbourFromNoLower(_, _, _, _, _, _)
NeighbourFromNoLower(shape, d, dm, rest, stride, k) ==
    IF dm < 1 THEN k
    ELSE LET pos == (rest % shape[dm]) + d[dm]
         IN  IF pos >= shape[dm]
             THEN -1
             ELSE NeighbourFromNoLower(shape, d, dm - 1, rest \div shape[dm],
                                       stride * shape[dm], k + pos * stride)

\* _kernel_connect, lines 126-139: the flat index of the neighbour of cell i
\* along offset d, -1 when a coordinate leaves the array
RECURSIVE NeighbourFrom(_, _, _, _, _, _)
NeighbourFrom(shape, d, dm, rest, stride, k) ==
    IF dm < 1 THEN k
    ELSE LET pos == (rest % shape[dm]) + d[dm]
         IN  IF pos < 0 \/ pos >= shape[dm]
             THEN -1
             ELSE NeighbourFrom(shape, d, dm - 1, rest \div shape[dm],
                                stride * shape[dm], k + pos * stride)

\* faulty variant: the offset is applied to the flat index, only the ends
\* of the buffer are checked
NeighbourFlat(shape, i, d) ==
    LET off[a \in 0 .. Len(shape)] ==
            IF a = 0 THEN 0 ELSE off[a - 1] * shape[a] + d[a]
        k == i + off[Len(shape)]
    IN  IF k < 0 \/ k >= Prod(shape) THEN -1 ELSE k

Neighbour(shape, i, d) == NeighbourFrom(shape, d, Len(shape), i, 1, 0)

\* faulty variant: a neighbour inside the array is taken whether active or not
UsableInBounds(i, dr) ==
    LET k == Neighbour(input.shape, i, dirs[dr + 1]) IN k >= 0

\* lines 125, 140, 141: the first direction from dr on whose neighbour is inside
\* the array and active, Len(dirs) when there is none
Usable(i, dr) ==
    LET k == Neighbour(input.shape, i, dirs[dr + 1]) IN k >= 0 /\ y[k] >= 0

NextDr(i, dr0) ==
    LET ok == {dr \in dr0 .. (Len(dirs) - 1) : Usable(i, dr)}
    IN  IF ok = {} THEN Len(dirs) ELSE CHOOSE dr \in ok : \A e \in ok : dr <= e

\* a thread: its position, the locals j and k, the direction it is at, and n,
\* the number of rounds of the while(1) loop begun for that direction
Idle == [pc |-> "done", j |-> 0, k |-> 0, dr |-> 0, n |-> 0]
Ready == [pc |-> "ready", j |-> 0, k |-> 0, dr |-> 0, n |-> 0]

AllDone == \A i \in DOMAIN th : th[i].pc = "done"

\* the thread of cell i starts the union for the next usable direction
Advance(i, dr0) ==
    LET dr == NextDr(i, dr0)
    IN  IF dr >= Len(dirs)
        THEN Idle
        ELSE [pc |-> "testj", j |-> i,
              k |-> Neighbour(input.shape, i, dirs[dr + 1]), dr |-> dr, n |-> 1]

\* faulty variant: no tie-break, the root found from i always goes under the
\* root found from the neighbour
CasUnordered(j, k) == [t |-> j, v |-> k]

\* faulty variant: the root found from the neighbour always goes under the
\* root found from the cell
CasNeighbourUnder(j, k) == [t |-> k, v |-> j]

\* faulty variant: the smaller root goes under the larger one
CasLargerWins(j, k) == IF j < k THEN [t |-> j, v |-> k] ELSE [t |-> k, v |-> j]

\* lines 146-155: the root the CAS rewrites (t) and the value it stores (v)
CasPair(j, k) == IF j < k THEN [t |-> k, v |-> j] ELSE [t |-> j, v |-> k]

\* faulty variant: only the value 1 makes a cell active
InitValueOnlyOnes(x, i) == IF x = 1 THEN i ELSE -1

\* faulty variant: every cell starts as its own root
InitValueAlwaysRoot(x, i) == i

\* _kernel_init, line 115
InitValue(x, i) == IF x = 0 THEN -1 ELSE i

----------------------------------------------------------------------------
\* label, lines 33-50: the exception raised, "none" when the arguments pass

\* faulty variant: the shape of a caller's output array is not looked at
ErrorOfOutputUnchecked(in, st, out) ==
    IF ~in.isarray THEN "TypeError"
    ELSE IF in.char \in {"F", "D"} THEN "TypeError"
    ELSE LET s == IF st.given THEN st
                  ELSE GenerateBinaryStructure(Len(in.shape), 1)
         IN  IF Len(s.shape) # Len(in.shape) THEN "RuntimeError"
             ELSE IF \E a \in 1 .. Len(s.shape) : s.shape[a] # 3 THEN "ValueError"
             ELSE "none"

\* faulty variant: only the single-precision complex type is refused
ErrorOfComplex64Only(in, st, out) ==
    IF ~in.isarray THEN "TypeError"
    ELSE IF in.char \in {"F"} THEN "TypeError"
    ELSE LET s == IF st.given THEN st
                  ELSE GenerateBinaryStructure(Len(in.shape), 1)
         IN  IF Len(s.shape) # Len(in.shape) THEN "RuntimeError"
             ELSE IF \E a \in 1 .. Len(s.shape) : s.shape[a] # 3 THEN "ValueError"
             ELSE IF out.kind = "ndarray" /\ out.shape # in.shape THEN "ValueError"
             ELSE "none"

\* faulty variant: a rank mismatch is reported like a wrong axis length
ErrorOfRankAsValueError(in, st, out) ==
    IF ~in.isarray THEN "TypeError"
    ELSE IF in.char \in {"F", "D"} THEN "TypeError"
    ELSE LET s == IF st.given THEN st
                  ELSE GenerateBinaryStructure(Len(in.shape), 1)
         IN  IF Len(s.shape) # Len(in.shape) THEN "ValueError"
             ELSE IF \E a \in 1 .. Len(s.shape) : s.shape[a] # 3 THEN "ValueError"
             ELSE IF out.kind = "ndarray" /\ out.shape # in.shape THEN "ValueError"
             ELSE "none"

ErrorOf(in, st, out) ==
    IF ~in.isarray THEN "TypeError"
    ELSE IF in.char \in {"F", "D"} THEN "TypeError"
    ELSE LET s == IF st.given THEN st
                  ELSE GenerateBinaryStructure(Len(in.shape), 1)
         IN  IF Len(s.shape) # Len(in.shape) THEN "RuntimeError"
             ELSE IF \E a \in 1 .. Len(s.shape) : s.shape[a] # 3 THEN "ValueError"
             ELSE IF out.kind = "ndarray" /\ out.shape # in.shape THEN "ValueError"
             ELSE "none"

\* the conversion done by output[...] = y[...]
Cast(v, dtype) == IF dtype = "bool" THEN (IF v # 0 THEN 1 ELSE 0) ELSE v

\* faulty variant: the root list is handed to finalize as collected
Unsorted(a) == a

\* faulty variant: the root list is sorted largest first
SortedDescending(a) ==
    [p \in DOMAIN a |->
        CHOOSE v \in Range(a) :
            /\ Cardinality({q \in DOMAIN a : a[q] > v}) <= p
            /\ p < Cardinality({q \in DOMAIN a : a[q] >= v})]

\* cupy.sort
Sort(a) ==
    [p \in DOMAIN a |->
        CHOOSE v \in Range(a) :
            /\ Cardinality({q \in DOMAIN a : a[q] < v}) <= p
            /\ p < Cardinality({q \in DOMAIN a : a[q] <= v})]

\* _kernel_finalize, lines 195-204: the index the search stops at
RECURSIVE Search(_, _, _, _, _)
Search(lab, yi, jmin, jmax, j) ==
    IF jmin < jmax
    THEN IF j \notin DOMAIN lab THEN [j |-> j, oob |-> TRUE]
         ELSE IF yi = lab[j] THEN [j |-> j, oob |-> FALSE]
         ELSE IF yi < lab[j]
              THEN Search(lab, yi, jmin, j - 1, CDiv(jmin + j - 1, 2))
              ELSE Search(lab, yi, j + 1, jmax, CDiv(j + 1 + jmax, 2))
    ELSE [j |-> j, oob |-> FALSE]

\* faulty variant: the first midpoint is taken without searching
FinalizeFirstProbe(lab, n, yi) == [j |-> CDiv(n - 1, 2), oob |-> FALSE]

\* faulty variant: the 0-based position is what finalize stores
FinalizeZeroBased(lab, n, yi) ==
    LET r == Search(lab, yi, 0, n - 1, CDiv(n - 1, 2))
    IN  [j |-> r.j - 1, oob |-> r.oob]

Finalize(lab, n, yi) == Search(lab, yi, 0, n - 1, CDiv(n - 1, 2))

----------------------------------------------------------------------------
\* Inputs

\* the array holding the elements of a tuple, in C order
FieldOf(t) == [i \in 0 .. (Len(t) - 1) |-> t[i + 1]]

Real(shape, t) == [isarray |-> TRUE, char |-> "d", shape |-> shape, data |-> FieldOf(t)]

\* Shapes of `rank` axes, every axis of length 0..dim, at most `cells` cells
\* (rank 0 is the scalar shape, a zero axis makes the array empty).
Shapes(rank, dim, cells) == {s \in [1 .. rank -> 0 .. dim] : Prod(s) <= cells}

Fields(shape) == [Cells(shape) -> {0, 1}]

NoStructure == [given |-> FALSE, shape |-> <<>>, on |-> {}]
NoOutput == [kind |-> "None", dtype |-> "int32", shape |-> <<>>, data |-> <<>>]

Given(shape, on) == [given |-> TRUE, shape |-> shape, on |-> on]

\* the entries at L1 distance exactly n from the centre
Shell(rank, n) == {f \in Cells(Cube(rank)) : SumAbs(Vec(rank, f)) = n}

\* The structures passed for a field of this rank: none (face connectivity),
\* all ones (full connectivity), the faces without the centre, the entries
\* at L1 distance 2 alone.
Structures(rank) ==
    {NoStructure,
     Given(Cube(rank), Cells(Cube(rank))),
     Given(Cube(rank), Shell(rank, 1)),
     Given(Cube(rank), Shell(rank, 2))}

\* Structures label() rejects: a rank too many or too few, an axis of length 2.
Short(rank) == [a \in 1 .. rank |-> IF a = 1 THEN 2 ELSE 3]

BadStructures(rank) ==
    {Given(s, Cells(s)) :
        s \in {Cube(rank + 1), Short(rank + 1)}
              \cup (IF rank = 0 THEN {} ELSE {Cube(rank - 1), Short(rank)})}

Dtypes == {"int32", "int64", "bool"}

Array(dtype, shape) ==
    [kind |-> "ndarray", dtype |-> dtype, shape |-> shape,
     data |-> [i \in Cells(shape) |-> Stale]]

Outputs(shape) ==
    {NoOutput}
    \cup {[kind |-> "dtype", dtype |-> d, shape |-> <<>>, data |-> <<>>] : d \in Dtypes}
    \cup {Array(d, shape) : d \in Dtypes}
    \cup {Array("int32", shape \o <<1>>), Array("int32", <<2>> \o shape)}

\* The labelling engine: real fields, accepted structures, a fresh int32 output.
InitCore ==
    \E rank \in 0 .. MaxRank : \E st \in Structures(rank) :
        \E shape \in Shapes(rank, MaxDim, MaxCells) : \E data \in Fields(shape) :
            /\ input = [isarray |-> TRUE, char |-> "d", shape |-> shape, data |-> data]
            /\ structure = st
            /\ output = NoOutput

\* The argument handling: every kind of input, structure and output.
InitApi ==
    \E rank \in 0 .. ApiRank : \E st \in {NoStructure} \cup BadStructures(rank) :
        \E shape \in Shapes(rank, MaxDim, ApiCells) : \E data \in Fields(shape) :
            /\ input \in {[isarray |-> a, char |-> c, shape |-> shape, data |-> data] :
                            a \in BOOLEAN, c \in {"d", "D"}}
            /\ structure = st
            /\ output \in Outputs(shape)

\* nothing else of the module is or was called
NoCall == [fn |-> "none", args |-> <<>>, result |-> <<>>]

\* label() is called: nothing has run yet
Start ==
    /\ pc = "call"
    /\ err = "none"
    /\ ret = [pair |-> FALSE, maxlabel |-> -1]
    /\ dirs = <<>>
    /\ y = <<>>
    /\ count = <<0, 0>>
    /\ maxlabel = -1
    /\ labels = <<>>
    /\ sorted = <<>>
    /\ th = <<>>
    /\ oob = FALSE
    /\ again = "no"
    /\ call = NoCall

\* 0-dim fields holding other numbers than 0 and 1
InitScalar ==
    /\ input \in {[isarray |-> TRUE, char |-> "d", shape |-> <<>>, data |-> [i \in 0 .. 0 |-> v]] :
                    v \in {-1, 2}}
    /\ structure = NoStructure
    /\ output \in Outputs(<<>>)

Init == (InitCore \/ InitApi \/ InitScalar) /\ Start

----------------------------------------------------------------------------
\* label(), host side

\* lines 33-50: an argument is rejected
Raise ==
    /\ pc = "call"
    /\ ErrorOf(input, structure, output) # "none"
    /\ err' = ErrorOf(input, structure, output)
    /\ pc' = "error"
    /\ UNCHANGED <<input, structure, output, ret, dirs, y, count, maxlabel,
                   labels, sorted, th, oob, Around>>

\* lines 37-41 and 52-57: the structure used and the output array
Resolved(st, rank) ==
    IF st.given THEN st
    ELSE LET g == GenerateBinaryStructure(rank, 1) IN Given(g.shape, g.on)

Allocated(out, shape) ==
    IF out.kind = "ndarray" THEN out
    ELSE [out EXCEPT !.shape = shape, !.data = [i \in Cells(shape) |-> Uninit]]

\* lines 75-78
Returned(out, n) == [pair |-> out.kind # "ndarray", maxlabel |-> n]

\* faulty variant: the scalar itself is taken for the feature count
ItemLabelAsIs(v) == v

\* line 64: maxlabel of a 0-dim field
ItemLabel(v) == IF v = 0 THEN 0 ELSE 1

\* lines 59-65: nothing to label, or a 0-dim field
Trivial ==
    /\ pc = "call"
    /\ ErrorOf(input, structure, output) = "none"
    /\ Prod(input.shape) = 0 \/ Len(input.shape) = 0
    /\ LET out == Allocated(output, input.shape)
           n == IF Prod(input.shape) = 0 THEN 0
                ELSE ItemLabel(input.data[0])
       IN  /\ output' = IF Prod(input.shape) = 0 THEN out
                        ELSE [out EXCEPT !.data = [i \in Cells(input.shape) |->
                                                     Cast(n, out.dtype)]]
           /\ maxlabel' = n
           /\ ret' = Returned(out, n)
    /\ structure' = Resolved(structure, Len(input.shape))
    /\ pc' = "done"
    /\ UNCHANGED <<input, err, dirs, y, count, labels, sorted, th, oob, Around>>

\* lines 66-71, 92-103: _label is entered and the init kernel launched
Enter ==
    /\ pc = "call"
    /\ ErrorOf(input, structure, output) = "none"
    /\ Prod(input.shape) # 0 /\ Len(input.shape) # 0
    /\ structure' = Resolved(structure, Len(input.shape))
    /\ output' = Allocated(output, input.shape)
    /\ dirs' = Dirs(structure')
    /\ y' = IF output'.dtype = "int32" THEN output'.data
            ELSE [i \in Cells(input.shape) |-> Uninit]
    /\ count' = <<0, 0>>
    /\ th' = [i \in Cells(input.shape) |-> Ready]
    /\ pc' = "init"
    /\ UNCHANGED <<input, err, ret, maxlabel, labels, sorted, oob, Around>>

\* _kernel_init
InitCell(i) ==
    /\ pc = "init"
    /\ th[i].pc = "ready"
    /\ y' = [y EXCEPT ![i] = InitValue(input.data[i], i)]
    /\ th' = [th EXCEPT ![i] = Idle]
    /\ UNCHANGED <<input, structure, output, pc, err, ret, dirs, count, maxlabel,
                   labels, sorted, oob, Around>>

\* line 104
LaunchConnect ==
    /\ pc = "init" /\ AllDone
    /\ pc' = "connect"
    /\ th' = [i \in DOMAIN th |-> Ready]
    /\ UNCHANGED <<input, structure, output, err, ret, dirs, y, count, maxlabel,
                   labels, sorted, oob, Around>>

----------------------------------------------------------------------------
\* _kernel_connect, one thread per cell

Host == <<input, structure, output, pc, err, ret, dirs, maxlabel, sorted, Around>>

\* line 124, and the entry of the loop over the directions
ConnectStart(i) ==
    /\ pc = "connect" /\ th[i].pc = "ready"
    /\ th' = [th EXCEPT ![i] = IF y[i] < 0 THEN Idle ELSE Advance(i, 0)]
    /\ UNCHANGED <<Host, y, count, labels, oob>>

\* line 143: the test j != y[j]
ConnectTestJ(i) ==
    /\ pc = "connect" /\ th[i].pc = "testj"
    /\ th' = [th EXCEPT ![i].pc = IF th[i].j # y[th[i].j] THEN "loadj" ELSE "testk"]
    /\ UNCHANGED <<Host, y, count, labels, oob>>

\* faulty variant: the walk from the cell shortens its path as it goes, the
\* cell is made to point at the parent just read
ConnectLoadJCompress(i) ==
    /\ pc = "connect" /\ th[i].pc = "loadj"
    /\ th' = [th EXCEPT ![i].pc = "testj", ![i].j = y[th[i].j]]
    /\ y' = [y EXCEPT ![i] = y[th[i].j]]
    /\ UNCHANGED <<Host, count, labels, oob>>

\* line 143: j = y[j]
ConnectLoadJ(i) ==
    /\ pc = "connect" /\ th[i].pc = "loadj"
    /\ th' = [th EXCEPT ![i].pc = "testj", ![i].j = y[th[i].j]]
    /\ UNCHANGED <<Host, y, count, labels, oob>>

\* line 144: the test k != y[k], and line 145 when the loop is left
ConnectTestK(i) ==
    /\ pc = "connect" /\ th[i].pc = "testk"
    /\ th' = [th EXCEPT ![i] =
                IF th[i].k # y[th[i].k] THEN [th[i] EXCEPT !.pc = "loadk"]
                ELSE IF th[i].j = th[i].k THEN Advance(i, th[i].dr + 1)
                ELSE [th[i] EXCEPT !.pc = "cas"]]
    /\ UNCHANGED <<Host, y, count, labels, oob>>

\* line 144: k = y[k]
ConnectLoadK(i) ==
    /\ pc = "connect" /\ th[i].pc = "loadk"
    /\ th' = [th EXCEPT ![i].pc = "testk", ![i].k = y[th[i].k]]
    /\ UNCHANGED <<Host, y, count, labels, oob>>

\* faulty variant: a thread whose CAS failed walks again from the cell and
\* its neighbour
AfterFailedCasFromStart(i, t, old) ==
    [th[i] EXCEPT !.pc = "testj", !.j = i,
                  !.k = Neighbour(input.shape, i, dirs[th[i].dr + 1]), !.n = @ + 1]

\* faulty variant: a thread whose CAS failed drops the direction
AfterFailedCasGiveUp(i, t, old) == Advance(i, th[i].dr + 1)

\* lines 148-149, 153-154: the CAS found `old` in y[t]; the thread takes it
\* for the root it had read there and goes round the loop again
AfterFailedCas(i, t, old) ==
    IF t = th[i].k
    THEN [th[i] EXCEPT !.pc = "testj", !.k = old, !.n = @ + 1]
    ELSE [th[i] EXCEPT !.pc = "testj", !.j = old, !.n = @ + 1]

\* lines 146-155: atomicCAS on the larger root
ConnectCas(i) ==
    /\ pc = "connect" /\ th[i].pc = "cas"
    /\ LET t == CasPair(th[i].j, th[i].k).t
           v == CasPair(th[i].j, th[i].k).v
           old == y[t]
       IN  IF old = t
           THEN /\ y' = [y EXCEPT ![t] = v]
                /\ th' = [th EXCEPT ![i] = Advance(i, th[i].dr + 1)]
           ELSE /\ y' = y
                /\ th' = [th EXCEPT ![i] = AfterFailedCas(i, t, old)]
    /\ UNCHANGED <<Host, count, labels, oob>>

\* line 105
LaunchCount ==
    /\ pc = "connect" /\ AllDone
    /\ pc' = "count"
    /\ th' = [i \in DOMAIN th |-> Ready]
    /\ UNCHANGED <<input, structure, output, err, ret, dirs, y, count, maxlabel,
                   labels, sorted, oob, Around>>

----------------------------------------------------------------------------
\* _kernel_count

\* line 166
CountStart(i) ==
    /\ pc = "count" /\ th[i].pc = "ready"
    /\ th' = [th EXCEPT ![i] = IF y[i] < 0 THEN Idle
                               ELSE [pc |-> "test", j |-> i, k |-> 0, dr |-> 0, n |-> 0]]
    /\ UNCHANGED <<Host, y, count, labels, oob>>

\* faulty variant: the walk stops after the first link
CountTestOneHop(i) ==
    /\ pc = "count" /\ th[i].pc = "test"
    /\ th' = [th EXCEPT ![i].pc = IF th[i].j # y[th[i].j] /\ th[i].j = i
                                  THEN "load" ELSE "store"]
    /\ UNCHANGED <<Host, y, count, labels, oob>>

\* line 168: the test j != y[j]
CountTest(i) ==
    /\ pc = "count" /\ th[i].pc = "test"
    /\ th' = [th EXCEPT ![i].pc = IF th[i].j # y[th[i].j] THEN "load" ELSE "store"]
    /\ UNCHANGED <<Host, y, count, labels, oob>>

\* line 168: j = y[j]
CountLoad(i) ==
    /\ pc = "count" /\ th[i].pc = "load"
    /\ th' = [th EXCEPT ![i].pc = "test", ![i].j = y[th[i].j]]
    /\ UNCHANGED <<Host, y, count, labels, oob>>

\* lines 169-170
CountStore(i) ==
    /\ pc = "count" /\ th[i].pc = "store"
    /\ IF th[i].j # i
       THEN /\ y' = [y EXCEPT ![i] = th[i].j]
            /\ count' = count
       ELSE /\ y' = y
            /\ count' = [count EXCEPT ![1] = count[1] + 1]
    /\ th' = [th EXCEPT ![i] = Idle]
    /\ UNCHANGED <<Host, labels, oob>>

\* lines 106-108
LaunchLabels ==
    /\ pc = "count" /\ AllDone
    /\ pc' = "labels"
    /\ maxlabel' = count[1]
    /\ labels' = [p \in 0 .. (count[1] - 1) |-> Uninit]
    /\ th' = [i \in DOMAIN th |-> Ready]
    /\ UNCHANGED <<input, structure, output, err, ret, dirs, y, count, sorted, oob, Around>>

----------------------------------------------------------------------------
\* _kernel_labels

\* faulty variant: every active cell is appended, root or not
LabelsAddEveryActive(i) ==
    /\ pc = "labels" /\ th[i].pc = "ready"
    /\ IF y[i] < 0
       THEN /\ th' = [th EXCEPT ![i] = Idle]
            /\ count' = count
       ELSE /\ th' = [th EXCEPT ![i] = [pc |-> "write", j |-> count[2], k |-> 0,
                                           dr |-> 0, n |-> 0]]
            /\ count' = [count EXCEPT ![2] = count[2] + 1]
    /\ UNCHANGED <<Host, y, labels, oob>>

\* lines 179-180
LabelsAdd(i) ==
    /\ pc = "labels" /\ th[i].pc = "ready"
    /\ IF y[i] # i
       THEN /\ th' = [th EXCEPT ![i] = Idle]
            /\ count' = count
       ELSE /\ th' = [th EXCEPT ![i] = [pc |-> "write", j |-> count[2], k |-> 0,
                                           dr |-> 0, n |-> 0]]
            /\ count' = [count EXCEPT ![2] = count[2] + 1]
    /\ UNCHANGED <<Host, y, labels, oob>>

\* line 181
LabelsWrite(i) ==
    /\ pc = "labels" /\ th[i].pc = "write"
    /\ IF th[i].j \in DOMAIN labels
       THEN /\ labels' = [labels EXCEPT ![th[i].j] = i]
            /\ oob' = oob
       ELSE /\ labels' = labels
            /\ oob' = TRUE
    /\ th' = [th EXCEPT ![i] = Idle]
    /\ UNCHANGED <<Host, y, count>>

\* line 109
LaunchFinalize ==
    /\ pc = "labels" /\ AllDone
    /\ pc' = "finalize"
    /\ sorted' = Sort(labels)
    /\ th' = [i \in DOMAIN th |-> Ready]
    /\ UNCHANGED <<input, structure, output, err, ret, dirs, y, count, maxlabel,
                   labels, oob, Around>>

----------------------------------------------------------------------------
\* _kernel_finalize

FinalizeCell(i) ==
    /\ pc = "finalize" /\ th[i].pc = "ready"
    /\ IF y[i] < 0
       THEN /\ y' = [y EXCEPT ![i] = 0]
            /\ oob' = oob
       ELSE LET r == Finalize(sorted, maxlabel, y[i])
            IN  /\ y' = [y EXCEPT ![i] = r.j + 1]
                /\ oob' = (oob \/ r.oob)
    /\ th' = [th EXCEPT ![i] = Idle]
    /\ UNCHANGED <<Host, count, labels>>

\* lines 110, 72-78
Return ==
    /\ pc = "finalize" /\ AllDone
    /\ output' = [output EXCEPT !.data = [i \in DOMAIN y |-> Cast(y[i], output.dtype)]]
    /\ ret' = Returned(output, maxlabel)
    /\ pc' = "done"
    /\ UNCHANGED <<input, structure, err, dirs, y, count, maxlabel, labels, sorted,
                   th, oob, Around>>

----------------------------------------------------------------------------
Next ==
    \/ Raise
    \/ Trivial
    \/ Enter
    \/ \E i \in DOMAIN th : InitCell(i)
    \/ LaunchConnect
    \/ \E i \in DOMAIN th : ConnectStart(i)
    \/ \E i \in DOMAIN th : ConnectTestJ(i)
    \/ \E i \in DOMAIN th : ConnectLoadJ(i)
    \/ \E i \in DOMAIN th : ConnectTestK(i)
    \/ \E i \in DOMAIN th : ConnectLoadK(i)
    \/ \E i \in DOMAIN th : ConnectCas(i)
    \/ LaunchCount
    \/ \E i \in DOMAIN th : CountStart(i)
    \/ \E i \in DOMAIN th : CountTest(i)
    \/ \E i \in DOMAIN th : CountLoad(i)
    \/ \E i \in DOMAIN th : CountStore(i)
    \/ LaunchLabels
    \/ \E i \in DOMAIN th : LabelsAdd(i)
    \/ \E i \in DOMAIN th : LabelsWrite(i)
    \/ LaunchFinalize
    \/ \E i \in DOMAIN th : FinalizeCell(i)
    \/ Return

Spec == Init /\ [][Next]_vars

\* The inputs of the runs checked for progress: real fields with the accepted
\* structures, and one rejected call.
InitLive ==
    \/ \E rank \in 0 .. LiveRank : \E st \in Structures(rank) :
          \E shape \in Shapes(rank, LiveDim, LiveCells) : \E data \in Fields(shape) :
              /\ input = [isarray |-> TRUE, char |-> "d", shape |-> shape, data |-> data]
              /\ structure = st
              /\ output = NoOutput
    \/ /\ input = [isarray |-> TRUE, char |-> "D", shape |-> <<1>>, data |-> <<0>>]
       /\ structure = NoStructure
       /\ output = NoOutput

InitFair == InitLive /\ Start

\* Some thread that can run does run: the device keeps executing a launched
\* kernel and the host keeps launching.
FairSpec == InitFair /\ [][Next]_vars /\ WF_vars(Next)

\* The same runs, every interleaving of the threads, with no assumption on
\* the scheduling.
LiveSpec == InitFair /\ [][Next]_vars

----------------------------------------------------------------------------
\* label() called on its own result

\* label(out, structure) with out the int32 array the first call wrote; the
\* first result is remembered in `call`
Relabel ==
    /\ pc = "done" /\ call = NoCall
    /\ call' = [fn |-> "label", args |-> <<>>,
                result |-> [data |-> output.data, maxlabel |-> ret.maxlabel]]
    /\ input' = [isarray |-> TRUE, char |-> "i", shape |-> input.shape,
                 data |-> output.data]
    /\ output' = NoOutput
    /\ pc' = "call"
    /\ ret' = [pair |-> FALSE, maxlabel |-> -1]
    /\ dirs' = <<>>
    /\ y' = <<>>
    /\ count' = <<0, 0>>
    /\ maxlabel' = -1
    /\ labels' = <<>>
    /\ sorted' = <<>>
    /\ th' = <<>>
    /\ UNCHANGED <<structure, err, oob, again>>

NextTwice == Next \/ Relabel

TwiceSpec == InitFair /\ [][NextTwice]_vars

----------------------------------------------------------------------------
\* The finalize kernel on every sorted root list

\* A 1-D field of SearchCells cells whose structure joins nothing (only the
\* centre entry is set), taken at the launch of the finalize kernel: every
\* active cell is a root, the root list is the set of active cells, collected
\* in scan order and sorted.
InitSearch ==
    \E R \in SUBSET (0 .. (SearchCells - 1)) :
        LET m == Cardinality(R)
            roots == Sort([p \in 0 .. (m - 1) |->
                             CHOOSE r \in R : Cardinality({q \in R : q < r}) = p])
        IN  /\ input = [isarray |-> TRUE, char |-> "d", shape |-> <<SearchCells>>,
                        data |-> [i \in 0 .. (SearchCells - 1) |->
                                     IF i \in R THEN 1 ELSE 0]]
            /\ structure = Given(<<3>>, {1})
            /\ output = Allocated(NoOutput, <<SearchCells>>)
            /\ pc = "finalize"
            /\ err = "none"
            /\ ret = [pair |-> FALSE, maxlabel |-> -1]
            /\ dirs = Dirs(structure)
            /\ y = [i \in 0 .. (SearchCells - 1) |-> InitValue(input.data[i], i)]
            /\ count = <<m, m>>
            /\ maxlabel = m
            /\ labels = roots
            /\ sorted = roots
            /\ th = [i \in 0 .. (SearchCells - 1) |-> Ready]
            /\ oob = FALSE
            /\ again = "no"
            /\ call = NoCall

NextSearch ==
    \/ \E i \in DOMAIN th : FinalizeCell(i)
    \/ Return

SearchSpec == InitSearch /\ [][NextSearch]_vars

----------------------------------------------------------------------------
\* Structures that are not centrosymmetric

\* 3-per-axis structures with an entry whose mirror entry differs: one entry
\* alone, and face connectivity with one face taken out.
Lopsided(rank) ==
    LET centre == (Pow3(rank) - 1) \div 2
        faces == GenerateBinaryStructure(rank, 1).on
    IN  {Given(Cube(rank), {f}) : f \in Cells(Cube(rank)) \ {centre}}
            \cup {Given(Cube(rank), faces \ {f}) : f \in faces \ {centre}}

InitLopsided ==
    /\ \/ \E rank \in 1 .. LiveRank : \E st \in Lopsided(rank) :
             \E shape \in Shapes(rank, LiveDim, LiveCells) : \E data \in Fields(shape) :
                 /\ input = [isarray |-> TRUE, char |-> "d", shape |-> shape, data |-> data]
                 /\ structure = st
                 /\ output = NoOutput
       \/ /\ input = [isarray |-> TRUE, char |-> "D", shape |-> <<1>>, data |-> <<0>>]
          /\ structure = NoStructure
          /\ output = NoOutput
    /\ Start

LopsidedSpec == InitLopsided /\ [][Next]_vars

----------------------------------------------------------------------------
\* The connect kernel under two schedules

Line3 == Real(<<3>>, <<1, 1, 1>>)

InitSchedules ==
    /\ \/ InitLive
       \/ input = Line3 /\ structure = NoStructure /\ output = NoOutput
    /\ Start

\* When the connect kernel has finished, the buffer it left is remembered in
\* `call` and label() is called once more on the same field with the
\* structure the first call used; the threads of the second call are
\* scheduled independently of the first.
Recall ==
    /\ pc = "connect" /\ AllDone
    /\ call = NoCall
    /\ call' = [fn |-> "_kernel_connect", args |-> <<>>, result |-> y]
    /\ output' = NoOutput
    /\ pc' = "call"
    /\ dirs' = <<>>
    /\ y' = <<>>
    /\ count' = <<0, 0>>
    /\ th' = <<>>
    /\ UNCHANGED <<input, structure, err, ret, maxlabel, labels, sorted, oob, again>>

NextSchedules == Next \/ Recall

SchedulesSpec == InitSchedules /\ [][NextSchedules]_vars

----------------------------------------------------------------------------
\* The connect kernel launched a second time

\* _kernel_connect()(y_shape, dirs, ndirs, x.ndim, y, size=y.size) once more,
\* after the connect kernel or after the count kernel has finished
ConnectAgain ==
    /\ pc \in {"connect", "count"} /\ AllDone
    /\ again = "no"
    /\ again' = pc
    /\ pc' = "connect"
    /\ th' = [i \in DOMAIN th |-> Ready]
    /\ UNCHANGED <<input, structure, output, err, ret, dirs, y, count, maxlabel,
                   labels, sorted, oob, call>>

\* the second launch came after the count kernel: _label goes on from there
ResumeCount ==
    /\ pc = "connect" /\ AllDone
    /\ again = "count"
    /\ again' = "over"
    /\ pc' = "count"
    /\ UNCHANGED <<input, structure, output, err, ret, dirs, y, count, maxlabel,
                   labels, sorted, th, oob, call>>

\* a field on which two threads compete for the root of cell 4
Grid2x3 == Real(<<2, 3>>, <<1, 0, 1,  1, 1, 1>>)

InitAgain ==
    /\ \/ InitLive
       \/ input = Grid2x3 /\ structure = NoStructure /\ output = NoOutput
    /\ Start

NextAgain ==
    \/ Raise
    \/ Trivial
    \/ Enter
    \/ \E i \in DOMAIN th : InitCell(i)
    \/ LaunchConnect
    \/ \E i \in DOMAIN th : ConnectStart(i)
    \/ \E i \in DOMAIN th : ConnectTestJ(i)
    \/ \E i \in DOMAIN th : ConnectLoadJ(i)
    \/ \E i \in DOMAIN th : ConnectTestK(i)
    \/ \E i \in DOMAIN th : ConnectLoadK(i)
    \/ \E i \in DOMAIN th : ConnectCas(i)
    \/ ConnectAgain
    \/ ResumeCount
    \/ again # "count" /\ LaunchCount
    \/ \E i \in DOMAIN th : CountStart(i)
    \/ \E i \in DOMAIN th : CountTest(i)
    \/ \E i \in DOMAIN th : CountLoad(i)
    \/ \E i \in DOMAIN th : CountStore(i)
    \/ LaunchLabels
    \/ \E i \in DOMAIN th : LabelsAdd(i)
    \/ \E i \in DOMAIN th : LabelsWrite(i)
    \/ LaunchFinalize
    \/ \E i \in DOMAIN th : FinalizeCell(i)
    \/ Return

AgainSpec == InitAgain /\ [][NextAgain]_vars

----------------------------------------------------------------------------
\* _generate_binary_structure called by itself, and by label() for a field
\* of one cell

\* no kernel state exists
NoKernels ==
    /\ err = "none"
    /\ ret = [pair |-> FALSE, maxlabel |-> -1]
    /\ dirs = <<>>
    /\ y = <<>>
    /\ count = <<0, 0>>
    /\ maxlabel = -1
    /\ labels = <<>>
    /\ sorted = <<>>
    /\ th = <<>>
    /\ oob = FALSE
    /\ again = "no"

InitGen ==
    \/ /\ pc = "generate"
       /\ call \in {[fn |-> "_generate_binary_structure",
                      args |-> [rank |-> r, connectivity |-> c],
                      result |-> <<>>] : r \in 0 .. GenRank, c \in -GenConn .. GenConn}
       /\ input = Real(<<>>, <<0>>)
       /\ structure = NoStructure
       /\ output = NoOutput
       /\ NoKernels
    \/ /\ \E r \in 0 .. GenRank : \E v \in {0, 1} :
             input = Real([a \in 1 .. r |-> 1], <<v>>)
       /\ structure = NoStructure
       /\ output = NoOutput
       /\ Start

\* lines 81-88
Generate ==
    /\ pc = "generate"
    /\ call' = [call EXCEPT !.result =
                   GenerateBinaryStructure(call.args.rank, call.args.connectivity)]
    /\ pc' = "generated"
    /\ UNCHANGED <<input, structure, output, err, ret, dirs, y, count, maxlabel,
                   labels, sorted, th, oob, again>>

NextGen == Generate \/ Trivial \/ Enter

GenSpec == InitGen /\ [][NextGen]_vars

----------------------------------------------------------------------------
\* The offsets compiled for every centrosymmetric structure

\* the structures of this rank equal to their point reflection, with nothing
\* on outside the first `pairs` pairs of opposite entries and the centre
Symmetric(rank, pairs) ==
    LET n == Pow3(rank)
        half == (n - 1) \div 2
        m == IF pairs < half THEN pairs ELSE half
    IN  {Given(Cube(rank), P \cup {n - 1 - f : f \in P} \cup C) :
            P \in SUBSET (0 .. (m - 1)), C \in {{}, {half}}}

InitCompile ==
    /\ \E rank \in 1 .. CompileRank :
          /\ input = Real([a \in 1 .. rank |-> 1], <<1>>)
          /\ structure \in Symmetric(rank, CompilePairs)
    /\ output = NoOutput
    /\ Start

CompileSpec == InitCompile /\ [][Enter]_vars

----------------------------------------------------------------------------
\* sum, mean and variance called with index=None

RECURSIVE Total(_, _)
\* ndarray.sum() of the elements of a at the positions S
Total(a, S) ==
    IF S = {} THEN 0
    ELSE LET i == CHOOSE n \in S : TRUE IN a[i] + Total(a, S \ {i})

\* line 407: input[labels != 0]
SumSelect(lab) == {i \in DOMAIN lab : lab[i] # 0}

\* line 479: input[labels > 0]
MeanSelect(lab) == {i \in DOMAIN lab : lab[i] > 0}

\* line 339: input[labels > 0]
VarianceSelect(lab) == {i \in DOMAIN lab : lab[i] > 0}

\* lines 467-471: sum / count as the fraction num/den (0/0 is nan)
MeanOf(a, S) == [num |-> Total(a, S), den |-> Cardinality(S)]

\* lines 325-330: sum((a - mean)^2) / count, as a fraction:
\* (n * sum(a^2) - sum(a)^2) / n^2
VarianceOf(a, S) ==
    LET n == Cardinality(S)
        sq == [i \in DOMAIN a |-> a[i] * a[i]]
    IN  [num |-> n * Total(sq, S) - Total(a, S) * Total(a, S), den |-> n * n]

\* the argument `labels`: None, something that is no cupy.ndarray, or an
\* array of the shape of input
LabelArgs(shape) ==
    {[kind |-> "None", data |-> <<>>], [kind |-> "list", data |-> <<>>]}
    \cup {[kind |-> "ndarray", data |-> d] : d \in [Cells(shape) -> {-1, 0, 1}]}

InitReduce ==
    /\ pc = "reduce"
    /\ \E n \in 1 .. ReduceCells :
          /\ \E d \in [Cells(<<n>>) -> {0, 1, 2}] : \E c \in {"d", "D"} :
                input = [isarray |-> TRUE, char |-> c, shape |-> <<n>>, data |-> d]
          /\ call \in {[fn |-> f, args |-> [labels |-> l, index |-> "None"],
                         result |-> <<>>] :
                           f \in {"sum", "mean", "variance"}, l \in LabelArgs(<<n>>)}
    /\ structure = NoStructure
    /\ output = NoOutput
    /\ NoKernels

\* the exception of lines 381-403 (sum), 445-476 (mean), 306-336 (variance)
ReduceError ==
    IF input.char \in {"F", "D"} THEN "TypeError"
    ELSE IF call.args.labels.kind = "list" THEN "TypeError"
    ELSE "none"

\* what is left alone by a reduction
Label == <<input, structure, output, ret, dirs, y, count, maxlabel, labels,
           sorted, th, oob, again>>

Finish(result) ==
    IF ReduceError # "none"
    THEN /\ err' = ReduceError
         /\ pc' = "error"
         /\ call' = call
    ELSE /\ err' = err
         /\ pc' = "reduced"
         /\ call' = [call EXCEPT !.result = result]

\* sum(input, labels, None)
Sum ==
    /\ pc = "reduce" /\ call.fn = "sum"
    /\ Finish(IF call.args.labels.kind = "None"
              THEN Total(input.data, DOMAIN input.data)
              ELSE Total(input.data, SumSelect(call.args.labels.data)))
    /\ UNCHANGED Label

\* mean(input, labels, None)
Mean ==
    /\ pc = "reduce" /\ call.fn = "mean"
    /\ Finish(IF call.args.labels.kind = "None"
              THEN MeanOf(input.data, DOMAIN input.data)
              ELSE MeanOf(input.data, MeanSelect(call.args.labels.data)))
    /\ UNCHANGED Label

\* variance(input, labels, None)
Variance ==
    /\ pc = "reduce" /\ call.fn = "variance"
    /\ Finish(IF call.args.labels.kind = "None"
              THEN VarianceOf(input.data, DOMAIN input.data)
              ELSE VarianceOf(input.data, VarianceSelect(call.args.labels.data)))
    /\ UNCHANGED Label

NextReduce == Sum \/ Mean \/ Variance

ReduceSpec == InitReduce /\ [][NextReduce]_vars

----------------------------------------------------------------------------
\* Worked examples

\* label([1,0,1,1,0,1], structure=[1,1,1])
Line6 == Real(<<6>>, <<1, 0, 1, 1, 0, 1>>)

\* label([[1,0,1],[1,0,1],[0,0,1]])
Grid3x3 == Real(<<3, 3>>, <<1, 0, 1,  1, 0, 1,  0, 0, 1>>)

\* The two examples, a full 2x2 field, an empty field and a complex one.
InitExamples ==
    /\ output = NoOutput
    /\ \/ input = Line6 /\ structure = Given(<<3>>, {0, 1, 2})
       \/ input = Grid3x3 /\ structure = NoStructure
       \/ input = Real(<<2, 2>>, <<1, 1, 1, 1>>) /\ structure = NoStructure
       \/ input = Real(<<0>>, <<>>) /\ structure = NoStructure
       \/ input = [Real(<<1>>, <<1>>) EXCEPT !.char = "D"] /\ structure = NoStructure
    /\ Start

ExampleSpec == InitExamples /\ [][Next]_vars

----------------------------------------------------------------------------
\* What the claims speak about

Active == {p \in DOMAIN input.data : input.data[p] # 0}

\* label() ran the kernels to the end
Labelled == pc = "done" /\ Len(input.shape) >= 1 /\ Prod(input.shape) > 0

\* the coordinates of the cell at flat position p
RECURSIVE Coords(_, _)
Coords(shape, p) ==
    IF shape = <<>> THEN <<>>
    ELSE LET n == Len(shape)
         IN  Append(Coords(SubSeq(shape, 1, n - 1), p \div shape[n]), p % shape[n])

\* the flat position, in a 3^rank structure, of the entry at offset d
RECURSIVE EntryOf(_)
EntryOf(d) ==
    IF d = <<>> THEN 0
    ELSE LET n == Len(d) IN 3 * EntryOf(SubSeq(d, 1, n - 1)) + (d[n] + 1)

\* q is one step of the structure away from p
Step(p, q) ==
    LET cp == Coords(input.shape, p)
        cq == Coords(input.shape, q)
        d == [a \in 1 .. Len(cp) |-> cq[a] - cp[a]]
    IN  /\ \A a \in 1 .. Len(d) : d[a] \in -1 .. 1
        /\ EntryOf(d) \in structure.on

RECURSIVE Reach(_)
Reach(S) ==
    LET T == S \cup {q \in Active : \E p \in S : Step(p, q)}
    IN  IF T = S THEN S ELSE Reach(T)

\* the active cells joined to p by a path of active cells
Component(p) == Reach({p})

Min(S) == CHOOSE m \in S : \A n \in S : m <= n

First(p) == Min(Component(p))

Centrosymmetric(st) ==
    \A f \in Cells(st.shape) : f \in st.on <=> (Prod(st.shape) - 1 - f) \in st.on

----------------------------------------------------------------------------
\* C1 Partition correctness: when label() has completed on a field of rank
\* >= 1 with a centrosymmetric structure, two active cells carry the same
\* label iff a path of active cells, each step an active offset of the
\* structure, joins them - whatever the interleaving of the threads was.
PartitionCorrect ==
    (Labelled /\ Centrosymmetric(structure)) =>
        \A p \in Active : \A q \in Active :
            (y[p] = y[q]) <=> (q \in Component(p))

\* a rank-4 field labelled with two cells sharing a label and a third cell
\* carrying another one
PartitionWitness ==
    /\ Labelled /\ Len(input.shape) = 4
    /\ \E p \in Active : \E q \in Active : \E r \in Active :
         p # q /\ y[p] = y[q] /\ y[r] # y[p]

\* C2 Scheduling independence: the final label array and the feature count
\* are a function of the field and the structure alone - every cell gets the
\* rank of its component among the components ordered by first cell, every
\* inactive cell 0 - so no interleaving of the connect, count and
\* root-collection threads can change a single element.
ScheduleIndependent ==
    (Labelled /\ Centrosymmetric(structure)) =>
        /\ y = [p \in DOMAIN y |->
                  IF p \in Active
                  THEN Cardinality({First(q) : q \in {r \in Active : First(r) <= First(p)}})
                  ELSE 0]
        /\ maxlabel = Cardinality({First(q) : q \in Active})
        /\ ret.maxlabel = maxlabel

\* the roots were appended to the root list out of order, and the labelling
\* is complete
ScheduleWitness ==
    /\ Labelled
    /\ \E a \in DOMAIN labels : \E b \in DOMAIN labels : a < b /\ labels[a] > labels[b]

\* C3 Density and range: after label() on a non-empty field of rank >= 1
\* every output value lies in 0..featureCount, every value of 1..featureCount
\* occurs, 0 occurs iff some cell is inactive, inactive cells hold 0 and
\* active cells a value >= 1, and featureCount is the number of connected
\* components.
DenseLabels ==
    Labelled =>
        /\ \A i \in DOMAIN y : 0 <= y[i] /\ y[i] <= maxlabel
        /\ \A v \in 1 .. maxlabel : \E i \in DOMAIN y : y[i] = v
        /\ (\E i \in DOMAIN y : y[i] = 0) <=> (Active # DOMAIN y)
        /\ \A i \in DOMAIN y : (i \in Active) <=> (y[i] >= 1)
        /\ Centrosymmetric(structure) =>
             maxlabel = Cardinality({Component(p) : p \in Active})

\* a labelled rank-3 field with two features, one of them of two cells, and
\* an inactive cell
DenseWitness ==
    /\ Labelled /\ Len(input.shape) = 3 /\ maxlabel = 2
    /\ Active # DOMAIN y
    /\ \E p \in Active : \E q \in Active : p # q /\ y[p] = y[q]

\* C4 Termination of the connect phase: once the connect kernel is launched,
\* every thread leaves its root-following loops and its CAS retry loop and
\* the kernel completes, under every interleaving in which the device keeps
\* running some thread.
ConnectTerminates == (pc = "connect") ~> (pc = "count")

\* a thread is about to fail its CAS: another thread has re-parented the
\* root it read
ConnectRetryWitness ==
    /\ pc = "connect"
    /\ \E i \in DOMAIN th :
         /\ th[i].pc = "cas"
         /\ y[CasPair(th[i].j, th[i].k).t] # CasPair(th[i].j, th[i].k).t

\* C5 Label assignment order: finalize gives an active cell whose root is r
\* the label 1 + (number of collected roots smaller than r), so the k-th
\* smallest root (0-based) yields k+1; only the set of collected roots enters,
\* not the order in which they were appended.
RankOrderLabels ==
    [][\A i \in DOMAIN th :
          (pc = "finalize" /\ th[i].pc = "ready" /\ th'[i].pc = "done" /\ y[i] >= 0)
          => y'[i] = 1 + Cardinality({r \in Range(labels) : r < y[i]})]_vars

\* three roots were appended largest first and the field is labelled
RankOrderWitness ==
    /\ Labelled /\ maxlabel = 3
    /\ labels[0] > labels[1] /\ labels[1] > labels[2]

----------------------------------------------------------------------------
\* The arguments of the call, as the claims classify them

ComplexField == input.isarray /\ input.char \in {"F", "D"}
FieldOk == input.isarray /\ ~ComplexField
RankDiffers == structure.given /\ Len(structure.shape) # Len(input.shape)
BadAxis == structure.given /\ \E a \in 1 .. Len(structure.shape) : structure.shape[a] # 3
BadOutput == output.kind = "ndarray" /\ output.shape # input.shape

Rejected == ~input.isarray \/ ComplexField \/ RankDiffers \/ BadAxis \/ BadOutput

\* no kernel has touched anything and nothing was returned
NothingRan ==
    /\ y = <<>> /\ th = <<>> /\ labels = <<>> /\ sorted = <<>>
    /\ count = <<0, 0>> /\ maxlabel = -1 /\ ret.maxlabel = -1
    /\ output.kind = "ndarray" => \A i \in DOMAIN output.data : output.data[i] = Stale

\* C6 Validation precedes all work: a call with a non-array or complex field,
\* a structure of the wrong rank or with an axis != 3, or a caller output of
\* the wrong shape never gets past the checks - it ends in an error with no
\* phase run, the caller's output array as it was, and nothing returned.
ValidationFirst ==
    (Rejected \/ pc = "error") =>
        /\ pc \in {"call", "error"}
        /\ pc = "error" => err # "none"
        /\ NothingRan

\* a call with a caller's output array of the wrong shape has failed
ValidationWitness ==
    /\ pc = "error" /\ FieldOk /\ ~RankDiffers /\ ~BadAxis
    /\ BadOutput /\ DOMAIN output.data # {}

\* C7 Error taxonomy, the checks read in the order label() makes them: a
\* complex field fails with TypeError (TypeMismatch); otherwise a structure
\* of another rank fails with RuntimeError (RankMismatch); otherwise a
\* structure with an axis != 3 fails with ValueError (ShapeMismatch);
\* otherwise a caller output of another shape fails with ValueError; a call
\* passing all the checks raises nothing.
ErrorTaxonomy ==
    pc # "call" =>
        /\ ComplexField => (pc = "error" /\ err = "TypeError")
        /\ (FieldOk /\ RankDiffers) => (pc = "error" /\ err = "RuntimeError")
        /\ (FieldOk /\ ~RankDiffers /\ BadAxis) => (pc = "error" /\ err = "ValueError")
        /\ (FieldOk /\ ~RankDiffers /\ ~BadAxis /\ BadOutput)
              => (pc = "error" /\ err = "ValueError")
        /\ ~Rejected => (pc # "error" /\ err = "none")

\* a complex field passed with a structure of the wrong rank and a caller
\* output of the wrong shape has failed
TaxonomyWitness ==
    /\ pc = "error" /\ ComplexField /\ RankDiffers /\ BadOutput

\* C8 as stated: a structure whose rank differs from the field's fails with
\* the ShapeMismatch kind (ValueError) that an axis of length != 3 gets.
RankErrorIsShapeError ==
    (pc = "error" /\ FieldOk /\ RankDiffers) => err = "ValueError"

\* C8 as amended: a structure whose rank differs from the field's fails with
\* RuntimeError (RankMismatch), whatever its axis lengths, and RuntimeError is
\* raised for nothing else; ValueError (ShapeMismatch) is what a structure of
\* the right rank with an axis of length != 3 gets.
RankErrorIsOwnKind ==
    (pc = "error" /\ FieldOk) =>
        /\ RankDiffers <=> err = "RuntimeError"
        /\ (~RankDiffers /\ BadAxis) => err = "ValueError"

\* a structure with every axis of length 3 and one axis too many was refused
RankErrorWitness ==
    /\ pc = "error" /\ FieldOk /\ RankDiffers /\ ~BadAxis
    /\ err = "RuntimeError"

\* C9 Output-buffer protocol: with a caller's output array label() returns
\* the feature count alone, otherwise the pair (array, count); either way the
\* output array holds the labels computed, also when its dtype is not int32
\* and it is filled by the copy from the working buffer.
OutputProtocol ==
    pc = "done" =>
        /\ ret.pair <=> output.kind # "ndarray"
        /\ ret.maxlabel = maxlabel
        /\ Labelled => output.data = y

\* C10 Boundary results: an all-zero field gives feature count 0 and an
\* all-zero output; a field with exactly one active cell gives feature count
\* 1, that cell labelled 1 and every other cell 0; an empty field gives
\* feature count 0 and no phase ever runs on it.
BoundaryResults ==
    /\ Prod(input.shape) = 0 =>
          (pc \in {"call", "done", "error"} /\ y = <<>> /\ th = <<>>)
    /\ pc = "done" =>
          /\ Prod(input.shape) = 0 => (ret.maxlabel = 0 /\ output.data = <<>>)
          /\ (Prod(input.shape) > 0 /\ Active = {}) =>
                (ret.maxlabel = 0 /\ \A i \in DOMAIN output.data : output.data[i] = 0)
          /\ Cardinality(Active) = 1 =>
                /\ ret.maxlabel = 1
                /\ \A i \in DOMAIN output.data :
                      output.data[i] = IF i \in Active THEN 1 ELSE 0

\* a 2-D field of four cells with a single active cell is labelled
BoundaryWitness ==
    /\ pc = "done" /\ Len(input.shape) = 2
    /\ Cardinality(DOMAIN input.data) = 4 /\ Cardinality(Active) = 1

\* C11 Rank-0 field: label() on a scalar field returns feature count 1 and
\* output 1 when the scalar is nonzero, feature count 0 and output 0 when it
\* is zero; no working buffer is initialised and no connect, count or finalize
\* thread ever exists for it.
ScalarField ==
    Len(input.shape) = 0 =>
        /\ pc \in {"call", "done", "error"}
        /\ y = <<>> /\ th = <<>> /\ labels = <<>> /\ sorted = <<>>
        /\ count = <<0, 0>>
        /\ pc = "done" =>
              LET n == IF input.data[0] # 0 THEN 1 ELSE 0
              IN  /\ ret.maxlabel = n
                  /\ DOMAIN output.data = {0}
                  /\ output.data[0] = n

\* the scalar 2 was labelled into a caller's 0-dim int64 array
ScalarWitness ==
    /\ pc = "done" /\ Len(input.shape) = 0 /\ input.data[0] = 2
    /\ output.kind = "ndarray" /\ output.dtype = "int64"

\* C12 1-D scenario: label([1,0,1,1,0,1]) with structure [1,1,1] ends, under
\* every interleaving of the threads, with the labels [1,0,2,2,0,3] in the
\* array returned and feature count 3.
LineLabels ==
    (pc = "done" /\ input = Line6) =>
        /\ y = FieldOf(<<1, 0, 2, 2, 0, 3>>)
        /\ output.data = y
        /\ ret = [pair |-> TRUE, maxlabel |-> 3]

\* the 1-D example is labelled, its roots having been collected out of order
LineWitness ==
    /\ pc = "done" /\ input = Line6
    /\ labels[0] > labels[1]

\* C13 2-D scenario: the 3x3 field [1,0,1],[1,0,1],[0,0,1] labelled with the
\* default face connectivity has feature count 2; the two cells of the left
\* column share a label, the three of the right column share the other, and
\* cells (0,2) and (1,0), flat neighbours 2 and 3, differ.
GridLabels ==
    (pc = "done" /\ input = Grid3x3) =>
        /\ ret.maxlabel = 2
        /\ output.data = y
        /\ y[0] = y[3]
        /\ y[2] = y[5] /\ y[5] = y[8]
        /\ y[2] # y[3]
        /\ \A i \in {0, 2, 3, 5, 8} : y[i] \in {1, 2}
        /\ \A i \in {1, 4, 6, 7} : y[i] = 0

\* the 2-D example is labelled, the root of the right column collected
\* before the root of the left one
GridWitness ==
    /\ pc = "done" /\ input = Grid3x3
    /\ labels[0] > labels[1]

\* C14 Idempotence: when label() is run with a centrosymmetric structure on
\* the array an earlier label() call with that structure produced, the second
\* array groups the cells exactly as the first does (two cells are equal in
\* one iff they are equal in the other, nonzero in one iff nonzero in the
\* other) and the two feature counts agree.
Idempotent ==
    (pc = "done" /\ call.fn = "label" /\ Centrosymmetric(structure)) =>
        /\ ret.maxlabel = call.result.maxlabel
        /\ DOMAIN output.data = DOMAIN call.result.data
        /\ \A p \in DOMAIN output.data :
              /\ (output.data[p] = 0) <=> (call.result.data[p] = 0)
              /\ \A q \in DOMAIN output.data :
                    (output.data[p] = output.data[q])
                        <=> (call.result.data[p] = call.result.data[q])

\* a 2-D array holding the labels 0, 1 and 2 has been labelled again
IdempotentWitness ==
    /\ pc = "done" /\ call.fn = "label" /\ Len(input.shape) = 2
    /\ {0, 1, 2} \subseteq Range(input.data)
    /\ ret.maxlabel = 2

\* C15 Connect is restartable: while the connect kernel runs a second time,
\* launched after a completed connect kernel or after the count kernel that
\* flattened the buffer, no step changes an entry of the working buffer and
\* no thread gets as far as a CAS, whatever the interleaving.
Restartable ==
    [][(again \in {"connect", "count"} /\ pc = "connect") =>
          /\ y' = y
          /\ \A i \in DOMAIN th : th'[i].pc # "cas"]_vars

\* a second connect kernel has run to its end on a buffer that still holds a
\* chain of two parent links
RestartWitness ==
    /\ again = "connect" /\ pc = "connect" /\ AllDone
    /\ \E i \in DOMAIN y : y[i] >= 0 /\ y[y[i]] # y[i]

\* C16 Default structure: called without a structure on a field of rank
\* r >= 1, label() works with the 3^r array whose entry at c in {0,1,2}^r is
\* on iff the L1 norm of c-1 is <= 1, that is the centre and the 2r face
\* neighbours; _generate_binary_structure(r, connectivity) returns the entries
\* with L1 norm <= connectivity, a connectivity below 1 counting as 1.
DefaultStructure ==
    [][/\ (pc = "call" /\ ~structure.given /\ pc' \in {"init", "done"}
           /\ Len(input.shape) >= 1) =>
             LET r == Len(input.shape)
                 near == {f \in Cells(Cube(r)) :
                            SumAbs([a \in 1 .. r |-> Coords(Cube(r), f)[a] - 1]) <= 1}
             IN  /\ structure' = Given(Cube(r), near)
                 /\ Cardinality(structure'.on) = 2 * r + 1
       /\ (pc = "generate" /\ pc' = "generated" /\ call.args.rank >= 1) =>
             LET r == call.args.rank
                 c == call.args.connectivity
                 n == IF c < 1 THEN 1 ELSE c
             IN  /\ call'.result.shape = Cube(r)
                 /\ call'.result.on =
                       {f \in Cells(Cube(r)) :
                          SumAbs([a \in 1 .. r |-> Coords(Cube(r), f)[a] - 1]) <= n}]_vars

\* _generate_binary_structure(3, 0) has returned
DefaultStructureWitness ==
    /\ pc = "generated"
    /\ call.args.rank = 3 /\ call.args.connectivity = 0
    /\ Cardinality(call.result.on) = 7

\* the offset of entry f of a 3^rank structure, from its coordinates
OffsetOf(rank, f) == [a \in 1 .. rank |-> Coords(Cube(rank), f)[a] - 1]

\* C17 Offset compilation: for a centrosymmetric structure of rank 1..3 the
\* offsets handed to the connect kernel, those with enc(v) < 0, are pairwise
\* distinct, are active offsets of the structure, do not include the zero
\* offset, and include exactly one of v and -v for every active nonzero
\* offset v: every undirected edge of the structure is examined once.
OffsetsCompiled ==
    (pc = "init" /\ Centrosymmetric(structure)) =>
        LET r == Len(structure.shape)
            D == Range(dirs)
        IN  /\ Cardinality(D) = Len(dirs)
            /\ \A d \in D : EntryOf(d) \in structure.on
            /\ [a \in 1 .. r |-> 0] \notin D
            /\ \A f \in structure.on :
                  LET v == OffsetOf(r, f)
                      w == [a \in 1 .. r |-> -v[a]]
                  IN  v # w => ((v \in D) # (w \in D))
            /\ 2 * Len(dirs) = Cardinality(structure.on \ {(Pow3(r) - 1) \div 2})

\* the 13 offsets of the all-ones structure of rank 3 have been compiled
OffsetsWitness ==
    /\ pc = "init" /\ Len(structure.shape) = 3
    /\ Cardinality(structure.on) = 27
    /\ Len(dirs) = 13

\* the cells whose label is not zero
Nonzero == {i \in DOMAIN call.args.labels.data : call.args.labels.data[i] # 0}

\* two fractions denote the same number (0/0 only equals 0/0)
SameNumber(a, b) ==
    /\ (a.den = 0) <=> (b.den = 0)
    /\ a.num * b.den = b.num * a.den

\* C18 Reductions with labels given and index None: sum, mean and variance
\* each reduce over the cells whose label is non-zero, negative labels
\* included, and leave out only the cells labelled 0.
NonzeroSelected ==
    (pc = "reduced" /\ call.args.labels.kind = "ndarray") =>
        /\ call.fn = "sum" => call.result = Total(input.data, Nonzero)
        /\ call.fn = "mean" => SameNumber(call.result, MeanOf(input.data, Nonzero))
        /\ call.fn = "variance" =>
              SameNumber(call.result, VarianceOf(input.data, Nonzero))

\* the cell reached from i after n parent links
RECURSIVE Walk(_, _)
Walk(i, n) == IF n = 0 \/ y[i] = i THEN i ELSE Walk(y[i], n - 1)

\* C19 as stated: in every state of the init, connect and count phases every
\* active cell i has 0 <= y[i] <= i.
ParentBelowAlways ==
    pc \in {"init", "connect", "count"} =>
        \A i \in Active : 0 <= y[i] /\ y[i] <= i

\* C19 as amended: every active cell i has 0 <= y[i] <= i from the moment
\* its init thread has written y[i], through the connect and count phases
\* (before that y[i] is whatever the buffer held); every step of the connect
\* phase that changes the buffer changes one entry, of a cell that was its
\* own parent, to a strictly smaller index; so the parent links of the
\* active cells lead to a self-parent cell and form no other cycle.
ParentBelow ==
    /\ [](\A i \in Active :
            (pc \in {"connect", "count"} \/ (pc = "init" /\ th[i].pc = "done")) =>
                /\ 0 <= y[i] /\ y[i] <= i
                /\ pc # "init" => y[Walk(i, Cardinality(DOMAIN y))] =
                                      Walk(i, Cardinality(DOMAIN y)))
    /\ [][(pc = "connect" /\ y' # y) =>
            \E t \in DOMAIN y :
                /\ y[t] = t /\ 0 <= y'[t] /\ y'[t] < t
                /\ \A i \in DOMAIN y \ {t} : y'[i] = y[i]]_vars

\* in the connect phase a cell hangs under a cell that hangs under a third
\* one, and a thread is about to succeed with another CAS
ParentBelowWitness ==
    /\ pc = "connect"
    /\ \E i \in Active : y[i] < i /\ y[y[i]] < y[i]
    /\ \E i \in DOMAIN th :
          /\ th[i].pc = "cas"
          /\ y[CasPair(th[i].j, th[i].k).t] = CasPair(th[i].j, th[i].k).t

Inactive == DOMAIN y \ Active

\* the threads that are inside a root walk or at the CAS
Walking ==
    {m \in DOMAIN th : th[m].pc \in {"testj", "loadj", "testk", "loadk", "cas",
                                       "test", "load", "store"}}

\* C20 Inactive cells are terminal: a cell whose field value is zero holds -1
\* from the write of its init thread until its finalize thread stores 0; in
\* the connect, count and root-collection phases its own thread does nothing,
\* no thread's root walk or CAS is at it, no active cell has it as parent and
\* it is not collected as a root.
InactiveTerminal ==
    \A i \in Inactive :
        /\ ((pc = "init" /\ th[i].pc = "done") \/ pc \in {"connect", "count", "labels"}
              \/ (pc = "finalize" /\ th[i].pc = "ready")) => y[i] = -1
        /\ ((pc = "finalize" /\ th[i].pc = "done") \/ pc = "done") => y[i] = 0
        /\ pc \in {"connect", "count", "labels"} =>
              /\ th[i].pc \in {"ready", "done"}
              /\ \A m \in Walking : th[m].j # i /\ (pc = "connect" => th[m].k # i)
              /\ \A p \in Active : y[p] \in Active
        /\ pc \in {"labels", "finalize", "done"} => i \notin Range(labels)

\* in the root-collection phase an inactive cell still holds -1 while a cell
\* after it hangs under a cell before it
InactiveWitness ==
    /\ pc = "labels"
    /\ \E i \in Inactive : \E p \in Active : \E q \in Active :
          p < i /\ i < q /\ y[q] = p /\ y[i] = -1

----------------------------------------------------------------------------
\* The retry loop of one union, lines 142-156

\* a thread inside the while(1) loop of a direction
InLoop(a) == a.pc \in {"testj", "loadj", "testk", "loadk", "cas"}

\* the root the CAS of a thread is aimed at: the larger of the two it found
CasTarget(a) == IF a.j < a.k THEN a.k ELSE a.j

\* C21: in the connect kernel a CAS aimed at the root r fails exactly when
\* y[r] # r at that instant; the thread then goes on from the value the CAS
\* returned, which is below r, in place of r; inside one union j and k are
\* never negative and never grow, and a failed round lowers j or k; the
\* number of rounds of one union of cell i with its neighbour k0 is at most
\* i + k0 + 1.
CasRetry ==
    /\ [](pc = "connect" =>
            \A i \in DOMAIN th : InLoop(th[i]) =>
                /\ th[i].j >= 0 /\ th[i].k >= 0
                /\ th[i].n >= 1
                /\ th[i].n <= i + Neighbour(input.shape, i, dirs[th[i].dr + 1]) + 1)
    /\ [][pc = "connect" =>
            \A i \in DOMAIN th : (InLoop(th[i]) /\ th'[i] # th[i]) =>
                LET a == th[i]
                    b == th'[i]
                    r == CasTarget(a)
                    same == InLoop(b) /\ b.dr = a.dr
                IN  /\ same => (b.j <= a.j /\ b.k <= a.k)
                    /\ (a.pc # "cas" /\ same) => (b.n = a.n /\ y' = y)
                    /\ a.pc = "cas" =>
                          /\ same <=> (y[r] # r)
                          /\ same =>
                                /\ y[r] < r
                                /\ y' = y
                                /\ b.pc = "testj"
                                /\ IF a.j < a.k
                                   THEN b.k = y[r] /\ b.j = a.j
                                   ELSE b.j = y[r] /\ b.k = a.k
                                /\ b.j + b.k < a.j + a.k
                                /\ b.n = a.n + 1]_vars

\* a thread is in the second round of a union: its first CAS failed, and it
\* goes on from a root below the one it had aimed at
CasRetryWitness ==
    /\ pc = "connect"
    /\ \E i \in DOMAIN th :
          /\ th[i].pc = "testj" /\ th[i].n = 2
          /\ th[i].j + th[i].k < i + Neighbour(input.shape, i, dirs[th[i].dr + 1])

----------------------------------------------------------------------------
\* the cell reached from i after n parent links of the buffer yy
RECURSIVE Follow(_, _, _)
Follow(yy, i, n) == IF n = 0 \/ yy[i] = i THEN i ELSE Follow(yy, yy[i], n - 1)

\* in the buffer yy every active cell points at a self-parent cell
Flat(yy) == \A i \in Active : yy[yy[i]] = yy[i]

\* C22 Connect does not flatten: a step of the connect kernel never writes
\* the parent of a cell that is not its own parent, so no path is shortened;
\* two schedules of the kernel on one field end with the same root for every
\* active cell, but not with the same parents: one schedule can leave a
\* chain of two links where another leaves every cell at its root (the
\* witness).
ConnectKeepsChains ==
    /\ []((pc = "connect" /\ AllDone /\ call # NoCall) =>
            \A i \in Active :
                Follow(call.result, i, Cardinality(DOMAIN y)) =
                    Follow(y, i, Cardinality(DOMAIN y)))
    /\ [][pc = "connect" /\ pc' = "connect" =>
              \A i \in DOMAIN y : y'[i] # y[i] => y[i] = i]_vars

\* the field [1,1,1]: the first schedule left the chain 2 -> 1 -> 0, the
\* second one leaves the cells 1 and 2 both at the root 0
ConnectKeepsChainsWitness ==
    /\ pc = "connect" /\ AllDone /\ call # NoCall
    /\ input = Line3
    /\ call.result = FieldOf(<<0, 0, 1>>)
    /\ ~Flat(call.result)
    /\ y = FieldOf(<<0, 0, 0>>)
    /\ Flat(y)

----------------------------------------------------------------------------
\* the cells that are their own parent
SelfRooted == {i \in DOMAIN y : y[i] = i}

\* C23 Count phase: no step of the count kernel changes the root of an active
\* cell, writes a cell that is its own parent, or writes anything but the
\* root of the cell written; the counter holds the number of self-parent
\* cells whose thread has finished; when the kernel has finished every active
\* cell points at its root (y[y[i]] = y[i]) and count[0] is the number of
\* cells with y[i] = i.
CountPhase ==
    /\ [](pc = "count" =>
            /\ count[1] = Cardinality({i \in SelfRooted : th[i].pc = "done"})
            /\ AllDone => /\ \A i \in Active : y[y[i]] = y[i]
                          /\ count[1] = Cardinality(SelfRooted))
    /\ [][pc = "count" /\ pc' = "count" =>
            \A i \in DOMAIN y :
                /\ i \in Active =>
                      Follow(y', i, Cardinality(DOMAIN y)) =
                          Follow(y, i, Cardinality(DOMAIN y))
                /\ y[i] = i => y'[i] = i
                /\ y'[i] # y[i] => y'[i] = Follow(y, i, Cardinality(DOMAIN y))]_vars

\* the count kernel at work on a chain: the thread of k is about to replace a
\* parent that is not a root, the cell b is still two links from its root,
\* and another thread has finished
CountPhaseWitness ==
    /\ pc = "count"
    /\ \E k \in Active : th[k].pc = "store" /\ th[k].j # y[k]
    /\ \E b \in Active : y[y[b]] # y[b]
    /\ \E a \in Active : th[a].pc = "done" /\ y[a] # a

----------------------------------------------------------------------------
\* the threads of the root collection that hold a slot and have not written
Writing == {i \in DOMAIN th : th[i].pc = "write"}

\* C24 Root collection: in every state of the root-collection kernel the list
\* has count[0] slots, the append index count[1] is at most that, no write
\* fell outside the list, the threads about to write hold distinct slots
\* inside the list that nobody has written, and the slots handed out so far
\* are exactly those below count[1]; when the kernel has finished count[1]
\* equals count[0] and the list holds every cell with y[i] = i exactly once,
\* with no slot left unwritten.
RootList ==
    pc = "labels" =>
        /\ maxlabel = count[1]
        /\ DOMAIN labels = 0 .. (maxlabel - 1)
        /\ count[2] <= maxlabel
        /\ ~oob
        /\ \A i \in Writing : th[i].j \in DOMAIN labels /\ labels[th[i].j] = Uninit
        /\ \A i, k \in Writing : th[i].j = th[k].j => i = k
        /\ {p \in DOMAIN labels : labels[p] # Uninit} \cup {th[i].j : i \in Writing}
               = 0 .. (count[2] - 1)
        /\ AllDone =>
              /\ count[2] = count[1]
              /\ Range(labels) = SelfRooted
              /\ Cardinality(SelfRooted) = maxlabel
              /\ \A p, q \in DOMAIN labels : labels[p] = labels[q] => p = q

\* the kernel has finished and the roots are in the list out of order: the
\* thread of the larger root took its slot first
RootListWitness ==
    /\ pc = "labels" /\ AllDone
    /\ maxlabel >= 2
    /\ labels[0] > labels[1]

----------------------------------------------------------------------------
\* C25 Finalize binary search: for every sorted list of distinct roots and
\* every root v in it, the search of _kernel_finalize reads no entry outside
\* the list and stops at the position of v; the cell is written with that
\* position plus 1, the number of roots up to and including v; an inactive
\* cell is written with 0.
SearchFinds ==
    pc \in {"finalize", "done"} =>
        /\ ~oob
        /\ \A i \in DOMAIN th : th[i].pc = "done" =>
              IF i \in Active
              THEN /\ y[i] - 1 \in DOMAIN sorted
                   /\ sorted[y[i] - 1] = i
                   /\ y[i] = Cardinality({r \in Active : r <= i})
              ELSE y[i] = 0
        /\ pc = "done" => output.data = y

\* the kernel has finished on a list of four roots or more with gaps between
\* them: the smallest root is not cell 0, the largest got the last number
SearchFindsWitness ==
    /\ pc = "finalize" /\ AllDone
    /\ maxlabel >= 4
    /\ 0 \notin Active
    /\ \E i, k \in Active : k > i + 1 /\ y[i] = 1 /\ y[k] = maxlabel

----------------------------------------------------------------------------
\* C26 Soundness during connect: in every state of the connect kernel, with a
\* centrosymmetric structure, two active cells whose parent links lead to the
\* same root are joined by a path of active cells whose steps are offsets of
\* the structure; the roots a thread holds in j and k belong to the component
\* of its cell, and the neighbour it unions with is one structure offset away
\* in every coordinate, never a cell that is next to it only in the flat
\* order.
TreeSound ==
    (pc = "connect" /\ Centrosymmetric(structure)) =>
        /\ \A p \in Active :
              LET C == Component(p)
                  r == Follow(y, p, Cardinality(DOMAIN y))
              IN  \A q \in Active : Follow(y, q, Cardinality(DOMAIN y)) = r => q \in C
        /\ \A i \in DOMAIN th : InLoop(th[i]) =>
              LET C == Component(i)
              IN  /\ Step(i, Neighbour(input.shape, i, dirs[th[i].dr + 1]))
                  /\ th[i].j \in C
                  /\ th[i].k \in C

\* the connect kernel has finished on the 2x2 field [[0,1],[1,0]] with face
\* connectivity: the cells 1 and 2, next to each other in the flat order but
\* in different rows and columns, are still two trees
TreeSoundWitness ==
    /\ pc = "connect" /\ AllDone
    /\ input.shape = <<2, 2>>
    /\ Active = {1, 2}
    /\ structure.on = GenerateBinaryStructure(2, 1).on
    /\ y[1] = 1 /\ y[2] = 2

----------------------------------------------------------------------------
\* C27 Canonical root: with a centrosymmetric structure, once the connect
\* kernel has finished - and through the count and root-collection kernels -
\* the parent links of every active cell lead to the cell of smallest flat
\* index in its component, whatever the interleaving was; and in the labels
\* label() returns, the component whose first cell in C order comes earlier
\* has the smaller number.
CanonicalRoot ==
    Centrosymmetric(structure) =>
        /\ ((pc = "connect" /\ AllDone) \/ pc \in {"count", "labels"}) =>
              \A i \in Active : Follow(y, i, Cardinality(DOMAIN y)) = First(i)
        /\ Labelled =>
              \A p, q \in Active : (First(p) < First(q)) <=> (y[p] < y[q])

\* the connect kernel has finished on a field of two axes: a cell that first
\* hung under a larger root reaches the first cell of its component over two
\* links
CanonicalRootWitness ==
    /\ pc = "connect" /\ AllDone
    /\ Len(input.shape) = 2
    /\ \E i \in Active : /\ y[i] # i /\ y[y[i]] # y[i]
                         /\ Follow(y, i, Cardinality(DOMAIN y)) = First(i)

----------------------------------------------------------------------------
\* the entries of the structure before the centre in C order: the offsets
\* whose first nonzero component is -1
Kept == {f \in structure.on : f < (Prod(structure.shape) - 1) \div 2}

\* q is one step from p along such an offset, in either direction
Linked(p, q) ==
    LET cp == Coords(input.shape, p)
        cq == Coords(input.shape, q)
        d == [a \in 1 .. Len(cp) |-> cq[a] - cp[a]]
        e == [a \in 1 .. Len(cp) |-> cp[a] - cq[a]]
    IN  /\ \A a \in 1 .. Len(d) : d[a] \in -1 .. 1
        /\ (EntryOf(d) \in Kept \/ EntryOf(e) \in Kept)

RECURSIVE Grown(_)
Grown(S) ==
    LET T == S \cup {q \in Active : \E p \in S : Linked(p, q)}
    IN  IF T = S THEN S ELSE Grown(T)

\* C28 Non-centrosymmetric structure: a real field with a 3-per-axis
\* structure that is not centrosymmetric passes the argument checks, no error
\* is raised; the labels returned are those of the graph whose edges are the
\* active offsets before the centre (negative encoding) taken in both
\* directions: two active cells share a label iff such edges join them, the
\* components are numbered by first cell, inactive cells get 0 and the count
\* is the number of components. The active offsets after the centre do not
\* enter.
LopsidedLabels ==
    (input.char = "d" /\ ~Centrosymmetric(structure)) =>
        /\ pc # "error" /\ err = "none"
        /\ ErrorOf(input, structure, output) = "none"
        /\ Labelled =>
              /\ \A p, q \in Active : (y[p] = y[q]) <=> (q \in Grown({p}))
              /\ \A p \in Active :
                    y[p] = Cardinality({Min(Grown({r})) : r \in
                               {r \in Active : Min(Grown({r})) <= Min(Grown({p}))}})
              /\ \A p \in DOMAIN y \ Active : y[p] = 0
              /\ ret.maxlabel = Cardinality({Min(Grown({r})) : r \in Active})

\* a field labelled with a structure in which an offset after the centre is
\* set and its mirror is not: two active cells that offset apart got
\* different labels
LopsidedWitness ==
    /\ Labelled /\ ~Centrosymmetric(structure)
    /\ \E p, q \in Active :
          /\ p < q /\ Step(p, q) /\ ~Step(q, p)
          /\ y[p] # y[q]
    /\ \E p, q \in Active : p # q /\ y[p] = y[q]

====
